---- MODULE Spec2Model ----
(***************************************************************************)
(* A model of source_code/web_scraper.py: the bounded-retry fetcher         *)
(* (get_soup), page-count discovery (get_total_pages), the page date probe  *)
(* (check_date), the binary page locator (binary_page_search), the          *)
(* spillover collector (get_article_links) and the orchestrator (main).     *)
(*                                                                         *)
(* The remote site is a fixture: `pages` is the listing (page number ->     *)
(* the page's record summaries in listed order) and `pagination` is what    *)
(* the pagination control of each page shows.  Publication timestamps and   *)
(* the target are integers compared exactly as the code compares the        *)
(* parsed datetime values (<=, <, ==, >).                                   *)
(***************************************************************************)
EXTENDS Integers, Sequences, FiniteSets, TLC

\* ------------------------------------------------------------------ bounds
\* Most listing pages of a fixture.
MaxPages == 3
\* Most record summaries on one listing page.
MaxRecs == 2
\* Publication timestamps are 1..MaxDate; targets are 0..MaxDate+1.
MaxDate == 3
\* Most request failures the network injects into one run.
MaxFaults == 3
\* Most record summaries in the whole listing of a collector or run fixture.
MaxListing == 5
MaxRunListing == 4
\* Titles of rows are 1..MaxTitle (0 is NULL); most rows in one batch.
MaxTitle == 2
MaxBatch == 2
\* Timestamps per calendar day: timestamp ts falls on day ts \div SlotsPerDay.
SlotsPerDay == 2
\* Most text blocks in a document; block texts and titles are 1..MaxText.
MaxBlocks == 4
MaxText == 2

\* ------------------------------------------------------- program constants
MAX_RETRIES == 3

\* ------------------------------------------------------------------- state
VARIABLES
    pages,          \* fixture: Seq of pages, a page is a Seq of [date, href]
    pagination,     \* fixture: Seq over pages of the set of token texts shown
    target_dt,      \* the target timestamp
    faults,         \* request failures the network may still inject
    pc,             \* position of the program
    err,            \* the exception that ended the run or call ("none" if none)
    url,            \* get_soup: the resource being fetched
    ret,            \* get_soup: the position of the caller to return to
    attempt,        \* get_soup: the for loop's index
    retry_attempt,  \* get_soup: retry_attempt
    sleeps,         \* get_soup: the backoff delays slept in this call, in order
    outcomes,       \* get_soup: the outcome of each request of this call
    soup,           \* get_soup: the value returned to the caller
    start_page,     \* get_total_pages: the page probed next
    all_pages,      \* get_total_pages: the page numbers seen so far
    total_pages,    \* the page count discovery returned
    probed,         \* get_total_pages: the pages whose pagination was fetched
    lo,             \* binary_page_search: lower end of the window
    hi,             \* binary_page_search: upper end of the window
    mid,            \* binary_page_search: the page probed
    result,         \* binary_page_search: <<>> for None, <<p>> for page p
    loc_start,      \* binary_page_search: the argument start_page
    loc_end,        \* binary_page_search: the argument end_page
    target_page,    \* the page binary_page_search returned (0 before)
    probes,         \* binary_page_search: the pages probed, in order
    pg_no,          \* get_article_links: the current page (at first the
                    \* page binary_page_search returned)
    article_links,  \* get_article_links: the links collected
    found_target,   \* get_article_links: found_target
    fetched,        \* get_article_links: the pages fetched, in order
    robots,         \* main: what check_robot_txt met ("unchecked" before)
    rows,           \* main: the links whose article gave a row
    skipped,        \* main: the links parse_article_link returned None for
    row_data,       \* update_db: the rows it was last called with, in order
    store,          \* the rows of table ARTICLES
    exit_status,    \* the process exit status ("none" while running)
    connection,     \* DBHelper: self.connection ("None" or "open")
    conns,          \* the sqlite3 connections opened and not yet closed
    blocks,         \* get_data: the text blocks of the document, in the
                    \* order the loops meet them
    blk,            \* get_data: the number of blocks processed
    article_data,   \* get_data: the dictionary of the three output lists
    accumulate,     \* get_data: accumulate
    article_body,   \* get_data: the lines accumulated for the current title
    prev_text,      \* get_data: prev_text (0 for the empty string)
    skip            \* get_data: skip

envVars == <<pages, pagination, target_dt>>
soupVars == <<url, ret, attempt, retry_attempt, sleeps, outcomes, soup>>
discVars == <<start_page, all_pages, total_pages, probed>>
locVars == <<lo, hi, mid, result, loc_start, loc_end, target_page, probes>>
colVars == <<pg_no, article_links, found_target, fetched>>
dbVars == <<connection, conns>>
pdfVars == <<blocks, blk, article_data, accumulate, article_body, prev_text, skip>>
mainVars == <<robots, rows, skipped, row_data, store, exit_status, dbVars, pdfVars>>
vars == <<envVars, faults, pc, err, soupVars, discVars, locVars, colVars, mainVars>>

\* --------------------------------------------------------------- resources
PageUrl(p) == [kind |-> "page", id |-> p]
NoSoup == [kind |-> "none", id |-> 0]
NoUrl == [kind |-> "none", id |-> 0]

ArticleUrl(h) == [kind |-> "article", id |-> h]

\* The site serves the listing pages 1..Len(pages) and every article linked
\* from them; any other page answers with an HTTP error status, which
\* raise_for_status turns into a RequestException.
Served(u) == u.kind = "article" \/ (u.kind = "page" /\ u.id \in 1..Len(pages))

\* ---------------------------------------------------------------- get_soup
RECURSIVE Pow2(_)
Pow2(n) == IF n <= 0 THEN 1 ELSE 2 * Pow2(n - 1)

BackoffNoPlusOne(k) == Pow2(k)
\* backoff = 2 ** (retry_attempt + 1)
Backoff(k) == Pow2(k + 1)

\* The call get_soup(u) from a caller that continues at position r.
CallGetSoup(u, r) ==
    /\ pc' = "get_soup"
    /\ url' = u
    /\ ret' = r
    /\ attempt' = 0
    /\ retry_attempt' = 0
    /\ sleeps' = <<>>
    /\ outcomes' = <<>>
    /\ soup' = NoSoup

\* An exception leaves the function: the run (or the call under study) ends.
Raise(e) == pc' = "raised" /\ err' = e

\* One pass of the for loop in which requests.get succeeds with a 2xx status:
\* return BeautifulSoup(r, "html.parser").
RequestOk ==
    /\ pc = "get_soup"
    /\ attempt < MAX_RETRIES
    /\ Served(url)
    /\ outcomes' = Append(outcomes, "ok")
    /\ soup' = url
    /\ pc' = ret
    /\ UNCHANGED <<envVars, faults, err, url, ret, attempt, retry_attempt, sleeps>>
    /\ UNCHANGED <<discVars, locVars, colVars, mainVars>>

\* One pass of the for loop in which requests.get or raise_for_status raises a
\* RequestException (timeout, connection error, 4xx/5xx status).
RequestException ==
    /\ pc = "get_soup"
    /\ attempt < MAX_RETRIES
    /\ \/ ~Served(url) /\ faults' = faults
       \/ Served(url) /\ faults > 0 /\ faults' = faults - 1
    /\ outcomes' = Append(outcomes, "transient")
    /\ IF retry_attempt <= MAX_RETRIES - 1
         THEN /\ sleeps' = Append(sleeps, Backoff(retry_attempt))
              /\ retry_attempt' = retry_attempt + 1
              /\ attempt' = attempt + 1
              /\ err' = err
              /\ soup' = NoSoup
              \* `continue`; when range(MAX_RETRIES) is used up the loop ends
              \* and the function falls through to `return None`.
              /\ pc' = IF attempt + 1 < MAX_RETRIES THEN "get_soup" ELSE ret
         ELSE /\ Raise("RequestException")
              /\ UNCHANGED <<sleeps, retry_attempt, attempt, soup>>
    /\ UNCHANGED <<envVars, url, ret, discVars, locVars, colVars, mainVars>>

RequestOtherErrorRetried ==
    /\ pc = "get_soup"
    /\ attempt < MAX_RETRIES
    /\ faults > 0
    /\ faults' = faults - 1
    /\ outcomes' = Append(outcomes, "other")
    /\ sleeps' = Append(sleeps, Backoff(retry_attempt))
    /\ retry_attempt' = retry_attempt + 1
    /\ attempt' = attempt + 1
    /\ pc' = IF attempt + 1 < MAX_RETRIES THEN "get_soup" ELSE ret
    /\ UNCHANGED <<envVars, err, url, ret, soup>>
    /\ UNCHANGED <<discVars, locVars, colVars, mainVars>>

\* One pass of the for loop in which something other than a RequestException
\* is raised: it is logged and re-raised at once.
RequestOtherError ==
    /\ pc = "get_soup"
    /\ attempt < MAX_RETRIES
    /\ faults > 0
    /\ faults' = faults - 1
    /\ outcomes' = Append(outcomes, "other")
    /\ Raise("Exception")
    /\ UNCHANGED <<envVars, url, ret, attempt, retry_attempt, sleeps, soup>>
    /\ UNCHANGED <<discVars, locVars, colVars, mainVars>>

GetSoupStep == RequestOk \/ RequestException \/ RequestOtherError

\* --------------------------------------------------------- get_total_pages
\* The text of a pagination tag is a sequence of characters.
Digits == <<"0", "1", "2", "3", "4", "5", "6", "7", "8", "9">>
IsDigit(c) == \E i \in 1..Len(Digits) : Digits[i] = c
DigitVal(c) == (CHOOSE i \in 1..Len(Digits) : Digits[i] = c) - 1

\* tag.text.replace(',', '')
RemoveCommas(t) == SelectSeq(t, LAMBDA c : c # ",")

RECURSIVE Decimal(_)
Decimal(t) ==
    IF t = <<>> THEN 0
    ELSE 10 * Decimal(SubSeq(t, 1, Len(t) - 1)) + DigitVal(t[Len(t)])

\* int(...) succeeds (no ValueError): a non-empty run of digits.  (The texts
\* of the fixtures hold digits, commas and letters only.)
IsInt(t) ==
    LET r == RemoveCommas(t) IN r # <<>> /\ \A i \in 1..Len(r) : IsDigit(r[i])
\* pg_no = int(tag.text.replace(',', ''))
IntOf(t) == Decimal(RemoveCommas(t))

MinInsteadOfMax(S) == CHOOSE m \in S : \A x \in S : m <= x
\* max(...) of a non-empty collection
Max(S) == CHOOSE m \in S : \A x \in S : x <= m

PagesFoundTextAsZero(p) ==
    {IF IsInt(t) THEN IntOf(t) ELSE 0 : t \in pagination[p]}
\* `pages` after the for loop over the tags of page p: the numeric tokens.
PagesFound(p) == {IntOf(t) : t \in {x \in pagination[p] : IsInt(x)}}

DiscoverFetchFailsProceeds ==
    /\ pc = "discover"
    /\ IF Served(PageUrl(start_page))
         THEN faults > 0 /\ faults' = faults - 1
         ELSE faults' = faults
    /\ pc' = "call_locate"
    /\ UNCHANGED <<envVars, err, soupVars, discVars, locVars, colVars, mainVars>>

\* requests.get or raise_for_status raises: RuntimeError('something is not
\* right...'), with no retry.
DiscoverFetchFails ==
    /\ pc = "discover"
    /\ IF Served(PageUrl(start_page))
         THEN faults > 0 /\ faults' = faults - 1
         ELSE faults' = faults
    /\ Raise("DiscoveryRequestError")
    /\ UNCHANGED <<envVars, soupVars, discVars, locVars, colVars, mainVars>>

\* The page shows no numeric token: RuntimeError('No valid page numbers found').
DiscoverNoNumbers ==
    /\ pc = "discover"
    /\ Served(PageUrl(start_page))
    /\ PagesFound(start_page) = {}
    /\ probed' = probed \cup {start_page}
    /\ Raise("NoPagination")
    /\ UNCHANGED <<envVars, faults, soupVars, start_page, all_pages, total_pages>>
    /\ UNCHANGED <<locVars, colVars, mainVars>>

\* max(pages) differs from max(all_pages): remember the tokens and jump.
DiscoverJump ==
    /\ pc = "discover"
    /\ Served(PageUrl(start_page))
    /\ PagesFound(start_page) # {}
    /\ Max(PagesFound(start_page)) # Max(all_pages)
    /\ probed' = probed \cup {start_page}
    /\ all_pages' = all_pages \cup PagesFound(start_page)
    /\ start_page' = Max(PagesFound(start_page))
    /\ UNCHANGED <<envVars, faults, pc, err, soupVars, total_pages>>
    /\ UNCHANGED <<locVars, colVars, mainVars>>

\* max(pages) == max(all_pages): return max(pages).
DiscoverReturn(next) ==
    /\ pc = "discover"
    /\ Served(PageUrl(start_page))
    /\ PagesFound(start_page) # {}
    /\ Max(PagesFound(start_page)) = Max(all_pages)
    /\ probed' = probed \cup {start_page}
    /\ total_pages' = Max(PagesFound(start_page))
    /\ pc' = next
    /\ UNCHANGED <<envVars, faults, err, soupVars, start_page, all_pages>>
    /\ UNCHANGED <<locVars, colVars, mainVars>>

\* ------------------------------------------- fixtures (pagination controls)
RECURSIVE ToText(_)
ToText(n) ==
    IF n < 10 THEN <<Digits[n + 1]>>
    ELSE Append(ToText(n \div 10), Digits[(n % 10) + 1])
NextText == <<"n", "e", "x", "t">>
\* A control showing the pages 1..m, with or without a "next" link.
Window(m, nx) == {ToText(i) : i \in 1..m} \cup (IF nx THEN {NextText} ELSE {})
\* The controls a page of an n-page fixture may show; the last one shows a
\* page number written with a thousands separator.
Controls(n) ==
    {Window(m, nx) : m \in 0..(n + 1), nx \in BOOLEAN}
        \cup {{<<"1", ",", "0", "0", "0">>, NextText}}
\* Every page of the fixture shows the true final page as its highest number.
TruthfulPagination ==
    \A p \in 1..Len(pagination) :
        /\ \E t \in pagination[p] : IsInt(t) /\ IntOf(t) = Len(pagination)
        /\ \A t \in pagination[p] : IsInt(t) => IntOf(t) <= Len(pagination)

\* ------------------------------------------- check_date, binary_page_search
Min(S) == CHOOSE m \in S : \A x \in S : m <= x

\* `dates` of check_date(p): the parsed opinion-date of every record of page p.
DatesOn(p) == {pages[p][i].date : i \in 1..Len(pages[p])}

\* min_date <= target_dt <= max_date
Contains(mn, t, mx) == mn <= t /\ t <= mx

\* The call binary_page_search(s, e, target_dt).
CallLocate(s, e) ==
    /\ loc_start' = s /\ loc_end' = e
    /\ lo' = s /\ hi' = e
    /\ result' = <<>>
    /\ probes' = <<>>
    /\ UNCHANGED <<mid, target_page>>

\* while lo <= hi: mid = (lo + hi) // 2; dates = check_date(mid), which
\* calls get_soup on the page.
LocateProbe ==
    /\ pc = "locate"
    /\ lo <= hi
    /\ mid' = (lo + hi) \div 2
    /\ probes' = Append(probes, mid')
    /\ CallGetSoup(PageUrl(mid'), "check_date")
    /\ UNCHANGED <<envVars, faults, err, discVars, colVars, mainVars>>
    /\ UNCHANGED <<lo, hi, result, loc_start, loc_end, target_page>>

LocateReturnsHi(next) ==
    /\ pc = "locate"
    /\ lo > hi
    /\ target_page' = (IF result # <<>> THEN result[1] ELSE hi)
    /\ pc' = next
    /\ UNCHANGED <<envVars, faults, err, soupVars, discVars, colVars, mainVars>>
    /\ UNCHANGED <<lo, hi, mid, result, loc_start, loc_end, probes>>

\* The loop has ended: return result if result is not None else lo.
LocateReturn(next) ==
    /\ pc = "locate"
    /\ lo > hi
    /\ target_page' = (IF result # <<>> THEN result[1] ELSE lo)
    /\ pc' = next
    /\ UNCHANGED <<envVars, faults, err, soupVars, discVars, colVars, mainVars>>
    /\ UNCHANGED <<lo, hi, mid, result, loc_start, loc_end, probes>>

\* get_soup returned None: soup.find_all raises AttributeError in check_date.
CheckDateNoSoup ==
    /\ pc = "check_date"
    /\ soup = NoSoup
    /\ Raise("AttributeError")
    /\ UNCHANGED <<envVars, faults, soupVars, discVars, locVars, colVars, mainVars>>

LocateNoDatesSkips ==
    /\ pc = "check_date"
    /\ soup # NoSoup
    /\ DatesOn(soup.id) = {}
    /\ hi' = mid - 1
    /\ pc' = "locate"
    /\ UNCHANGED <<envVars, faults, err, soupVars, discVars, colVars, mainVars>>
    /\ UNCHANGED <<lo, mid, result, loc_start, loc_end, target_page, probes>>

\* check_date found no date and returned None: RuntimeError.
LocateNoDates ==
    /\ pc = "check_date"
    /\ soup # NoSoup
    /\ DatesOn(soup.id) = {}
    /\ Raise("NoDates")
    /\ UNCHANGED <<envVars, faults, soupVars, discVars, locVars, colVars, mainVars>>

LocateHitKeepsFirst ==
    /\ pc = "check_date"
    /\ soup # NoSoup
    /\ DatesOn(soup.id) # {}
    /\ Contains(Min(DatesOn(soup.id)), target_dt, Max(DatesOn(soup.id)))
    /\ result' = (IF result = <<>> THEN <<mid>> ELSE result)
    /\ hi' = mid - 1
    /\ pc' = "locate"
    /\ UNCHANGED <<envVars, faults, err, soupVars, discVars, colVars, mainVars>>
    /\ UNCHANGED <<lo, mid, loc_start, loc_end, target_page, probes>>

LocateHitMovesLo ==
    /\ pc = "check_date"
    /\ soup # NoSoup
    /\ DatesOn(soup.id) # {}
    /\ Contains(Min(DatesOn(soup.id)), target_dt, Max(DatesOn(soup.id)))
    /\ result' = <<mid>>
    /\ lo' = mid + 1
    /\ pc' = "locate"
    /\ UNCHANGED <<envVars, faults, err, soupVars, discVars, colVars, mainVars>>
    /\ UNCHANGED <<hi, mid, loc_start, loc_end, target_page, probes>>

\* min_date <= target_dt <= max_date: result = mid; hi = mid - 1.
LocateHit ==
    /\ pc = "check_date"
    /\ soup # NoSoup
    /\ DatesOn(soup.id) # {}
    /\ Contains(Min(DatesOn(soup.id)), target_dt, Max(DatesOn(soup.id)))
    /\ result' = <<mid>>
    /\ hi' = mid - 1
    /\ pc' = "locate"
    /\ UNCHANGED <<envVars, faults, err, soupVars, discVars, colVars, mainVars>>
    /\ UNCHANGED <<lo, mid, loc_start, loc_end, target_page, probes>>

LocateOlderMovesHi ==
    /\ pc = "check_date"
    /\ soup # NoSoup
    /\ DatesOn(soup.id) # {}
    /\ ~Contains(Min(DatesOn(soup.id)), target_dt, Max(DatesOn(soup.id)))
    /\ target_dt < Min(DatesOn(soup.id))
    /\ hi' = mid - 1
    /\ pc' = "locate"
    /\ UNCHANGED <<envVars, faults, err, soupVars, discVars, colVars, mainVars>>
    /\ UNCHANGED <<lo, mid, result, loc_start, loc_end, target_page, probes>>

\* target_dt < min_date: lo = mid + 1.
LocateOlder ==
    /\ pc = "check_date"
    /\ soup # NoSoup
    /\ DatesOn(soup.id) # {}
    /\ ~Contains(Min(DatesOn(soup.id)), target_dt, Max(DatesOn(soup.id)))
    /\ target_dt < Min(DatesOn(soup.id))
    /\ lo' = mid + 1
    /\ pc' = "locate"
    /\ UNCHANGED <<envVars, faults, err, soupVars, discVars, colVars, mainVars>>
    /\ UNCHANGED <<hi, mid, result, loc_start, loc_end, target_page, probes>>

LocateNewerKeepsMid ==
    /\ pc = "check_date"
    /\ soup # NoSoup
    /\ DatesOn(soup.id) # {}
    /\ ~Contains(Min(DatesOn(soup.id)), target_dt, Max(DatesOn(soup.id)))
    /\ ~(target_dt < Min(DatesOn(soup.id)))
    /\ hi' = mid
    /\ pc' = "locate"
    /\ UNCHANGED <<envVars, faults, err, soupVars, discVars, colVars, mainVars>>
    /\ UNCHANGED <<lo, mid, result, loc_start, loc_end, target_page, probes>>

\* else: hi = mid - 1.
LocateNewer ==
    /\ pc = "check_date"
    /\ soup # NoSoup
    /\ DatesOn(soup.id) # {}
    /\ ~Contains(Min(DatesOn(soup.id)), target_dt, Max(DatesOn(soup.id)))
    /\ ~(target_dt < Min(DatesOn(soup.id)))
    /\ hi' = mid - 1
    /\ pc' = "locate"
    /\ UNCHANGED <<envVars, faults, err, soupVars, discVars, colVars, mainVars>>
    /\ UNCHANGED <<lo, mid, result, loc_start, loc_end, target_page, probes>>

LocateStep(next) ==
    \/ LocateProbe
    \/ LocateReturn(next)
    \/ CheckDateNoSoup
    \/ LocateNoDates
    \/ LocateHit
    \/ LocateOlder
    \/ LocateNewer

\* ---------------------------------------------- fixtures (pages by range)
Rec(d, h) == [date |-> d, href |-> h]
\* check_date reads only the newest and the oldest date of a page: a page
\* with newest date mx and oldest date mn, listed newest first.
RangePage(mx, mn) == IF mx = mn THEN <<Rec(mx, 1)>> ELSE <<Rec(mx, 1), Rec(mn, 2)>>
RangePages ==
    {<<>>} \cup UNION {{RangePage(mx, mn) : mn \in 1..mx} : mx \in 1..MaxDate}
Targets == 0..(MaxDate + 1)

\* -------------------------------------------------------- get_article_links
\* The call get_article_links(p, target_dt, total_pages).
CallCollect(p) ==
    /\ pg_no' = p
    /\ article_links' = {}
    /\ found_target' = FALSE
    /\ fetched' = <<>>

RECURSIVE ScanCollectsNewer(_, _, _, _)
ScanCollectsNewer(recs, i, links, found) ==
    IF i > Len(recs) THEN [stop |-> "end", links |-> links, found |-> found]
    ELSE IF recs[i].date >= target_dt
      THEN ScanCollectsNewer(recs, i + 1,
               IF recs[i].href # 0 THEN links \cup {recs[i].href} ELSE links,
               TRUE)
    ELSE IF links # {}
      THEN [stop |-> "return", links |-> links, found |-> found]
    ELSE [stop |-> "raise", links |-> links, found |-> found]

RECURSIVE ScanReturnsEmpty(_, _, _, _)
ScanReturnsEmpty(recs, i, links, found) ==
    IF i > Len(recs) THEN [stop |-> "end", links |-> links, found |-> found]
    ELSE IF recs[i].date > target_dt
      THEN ScanReturnsEmpty(recs, i + 1, links, found)
    ELSE IF recs[i].date = target_dt
      THEN ScanReturnsEmpty(recs, i + 1,
               IF recs[i].href # 0 THEN links \cup {recs[i].href} ELSE links,
               TRUE)
    ELSE [stop |-> "return", links |-> links, found |-> found]

\* The for loop over the articles of one page, from record i on, entered with
\* article_links = links and found_target = found.  It ends the page ("end"),
\* returns at an older record ("return") or raises there ("raise").  href 0
\* is a link tag without href.
RECURSIVE Scan(_, _, _, _)
Scan(recs, i, links, found) ==
    IF i > Len(recs) THEN [stop |-> "end", links |-> links, found |-> found]
    ELSE IF recs[i].date > target_dt
      THEN Scan(recs, i + 1, links, found)
    ELSE IF recs[i].date = target_dt
      THEN Scan(recs, i + 1,
               IF recs[i].href # 0 THEN links \cup {recs[i].href} ELSE links,
               TRUE)
    ELSE IF links # {}
      THEN [stop |-> "return", links |-> links, found |-> found]
    ELSE [stop |-> "raise", links |-> links, found |-> found]

\* What the for loop does with the page get_soup returned.
Scanned == Scan(pages[soup.id], 1, article_links, found_target)

\* while True: soup = get_soup(url of page pg_no).
CollectFetch ==
    /\ pc = "collect"
    /\ fetched' = Append(fetched, pg_no)
    /\ CallGetSoup(PageUrl(pg_no), "articles")
    /\ UNCHANGED <<envVars, faults, err, discVars, locVars, mainVars>>
    /\ UNCHANGED <<pg_no, article_links, found_target>>

\* get_soup returned None: soup.find_all raises AttributeError.
CollectNoSoup ==
    /\ pc = "articles"
    /\ soup = NoSoup
    /\ Raise("AttributeError")
    /\ UNCHANGED <<envVars, faults, soupVars, discVars, locVars, colVars, mainVars>>

\* if not articles: RuntimeError('No valid articles found in page').
CollectNoArticles ==
    /\ pc = "articles"
    /\ soup # NoSoup
    /\ pages[soup.id] = <<>>
    /\ Raise("NoArticles")
    /\ UNCHANGED <<envVars, faults, soupVars, discVars, locVars, colVars, mainVars>>

\* An older record is met with links collected: return article_links.
CollectReturnAtOlder(next) ==
    /\ pc = "articles"
    /\ soup # NoSoup
    /\ pages[soup.id] # <<>>
    /\ Scanned.stop = "return"
    /\ article_links' = Scanned.links
    /\ found_target' = Scanned.found
    /\ pc' = next
    /\ UNCHANGED <<envVars, faults, err, soupVars, discVars, locVars, mainVars>>
    /\ UNCHANGED <<pg_no, fetched>>

\* An older record is met with nothing collected: the RuntimeError('No valid
\* article links found') raised inside the try block is caught by its
\* `except Exception` and replaced by RuntimeError('Error while parsing the
\* article metadata').
CollectRaiseAtOlder ==
    /\ pc = "articles"
    /\ soup # NoSoup
    /\ pages[soup.id] # <<>>
    /\ Scanned.stop = "raise"
    /\ found_target' = Scanned.found
    /\ Raise("ParseMetadata")
    /\ UNCHANGED <<envVars, faults, soupVars, discVars, locVars, mainVars>>
    /\ UNCHANGED <<pg_no, article_links, fetched>>

CollectLastPageForgets(next) ==
    /\ pc = "articles"
    /\ soup # NoSoup
    /\ pages[soup.id] # <<>>
    /\ Scanned.stop = "end"
    /\ pg_no >= total_pages
    /\ found_target' = Scanned.found
    /\ IF article_links # {}
         THEN pc' = next /\ err' = err
         ELSE Raise("NotFound")
    /\ UNCHANGED <<envVars, faults, soupVars, discVars, locVars, mainVars>>
    /\ UNCHANGED <<pg_no, article_links, fetched>>

\* The page is used up and pg_no >= total_pages: return what was collected,
\* or raise RuntimeError('No valid article links found') if nothing was.
CollectLastPage(next) ==
    /\ pc = "articles"
    /\ soup # NoSoup
    /\ pages[soup.id] # <<>>
    /\ Scanned.stop = "end"
    /\ pg_no >= total_pages
    /\ article_links' = Scanned.links
    /\ found_target' = Scanned.found
    /\ IF Scanned.links # {}
         THEN pc' = next /\ err' = err
         ELSE Raise("NotFound")
    /\ UNCHANGED <<envVars, faults, soupVars, discVars, locVars, mainVars>>
    /\ UNCHANGED <<pg_no, fetched>>

CollectAdvanceStays ==
    /\ pc = "articles"
    /\ soup # NoSoup
    /\ pages[soup.id] # <<>>
    /\ Scanned.stop = "end"
    /\ pg_no < total_pages
    /\ Scanned.found
    /\ article_links' = Scanned.links
    /\ found_target' = Scanned.found
    /\ pc' = "collect"
    /\ UNCHANGED <<envVars, faults, err, soupVars, discVars, locVars, mainVars>>
    /\ UNCHANGED <<pg_no, fetched>>

\* The page is used up, it is not the last one and found_target is set:
\* pg_no += 1.
CollectAdvance ==
    /\ pc = "articles"
    /\ soup # NoSoup
    /\ pages[soup.id] # <<>>
    /\ Scanned.stop = "end"
    /\ pg_no < total_pages
    /\ Scanned.found
    /\ article_links' = Scanned.links
    /\ found_target' = Scanned.found
    /\ pg_no' = pg_no + 1
    /\ pc' = "collect"
    /\ UNCHANGED <<envVars, faults, err, soupVars, discVars, locVars, mainVars>>
    /\ UNCHANGED fetched

\* The page is used up, it is not the last one and found_target is not set:
\* return article_links if there are any, else raise RuntimeError('No valid
\* article links found').
CollectStop(next) ==
    /\ pc = "articles"
    /\ soup # NoSoup
    /\ pages[soup.id] # <<>>
    /\ Scanned.stop = "end"
    /\ pg_no < total_pages
    /\ ~Scanned.found
    /\ article_links' = Scanned.links
    /\ found_target' = Scanned.found
    /\ IF Scanned.links # {}
         THEN pc' = next /\ err' = err
         ELSE Raise("NotFound")
    /\ UNCHANGED <<envVars, faults, soupVars, discVars, locVars, mainVars>>
    /\ UNCHANGED <<pg_no, fetched>>

CollectStep(next) ==
    \/ CollectFetch
    \/ CollectNoSoup
    \/ CollectNoArticles
    \/ CollectReturnAtOlder(next)
    \/ CollectRaiseAtOlder
    \/ CollectLastPage(next)
    \/ CollectAdvance
    \/ CollectStop(next)

\* --------------------------------------------- parse_article_link and main
\* check_robot_txt: robots.txt was read and allows the listing path.
RobotsAllows ==
    /\ pc = "main"
    /\ robots' = "allow"
    /\ pc' = "get_args"
    /\ UNCHANGED <<envVars, faults, err, soupVars, discVars, locVars, colVars>>
    /\ UNCHANGED <<rows, skipped, row_data, store, exit_status, dbVars, pdfVars>>

RobotsUnreachableAborts ==
    /\ pc = "main"
    /\ robots' = "unreachable"
    /\ Raise("Disallowed")
    /\ UNCHANGED <<envVars, faults, soupVars, discVars, locVars, colVars>>
    /\ UNCHANGED <<rows, skipped, row_data, store, exit_status, dbVars, pdfVars>>

\* check_robot_txt: reading or parsing robots.txt raised; it returns True.
RobotsUnreachable ==
    /\ pc = "main"
    /\ robots' = "unreachable"
    /\ pc' = "get_args"
    /\ UNCHANGED <<envVars, faults, err, soupVars, discVars, locVars, colVars>>
    /\ UNCHANGED <<rows, skipped, row_data, store, exit_status, dbVars, pdfVars>>

RobotsDeniesProceeds ==
    /\ pc = "main"
    /\ robots' = "deny"
    /\ pc' = "get_args"
    /\ UNCHANGED <<envVars, faults, err, soupVars, discVars, locVars, colVars>>
    /\ UNCHANGED <<rows, skipped, row_data, store, exit_status, dbVars, pdfVars>>

\* check_robot_txt returned False: RuntimeError('Scraper is trying to access
\* disallowed data').
RobotsDenies ==
    /\ pc = "main"
    /\ robots' = "deny"
    /\ Raise("Disallowed")
    /\ UNCHANGED <<envVars, faults, soupVars, discVars, locVars, colVars>>
    /\ UNCHANGED <<rows, skipped, row_data, store, exit_status, dbVars, pdfVars>>

\* target_dt = get_args() parsed the date; total_pages = get_total_pages()
\* starts at page 1.
MainGetArgs ==
    /\ pc = "get_args"
    /\ start_page' = 1
    /\ all_pages' = {0}
    /\ probed' = {}
    /\ pc' = "discover"
    /\ UNCHANGED <<envVars, faults, err, soupVars, total_pages, locVars, colVars, mainVars>>

\* get_args: dateparser.parse cannot read the -d value; the error is logged
\* and raised again.
GetArgsBadDate ==
    /\ pc = "get_args"
    /\ Raise("ArgError")
    /\ UNCHANGED <<envVars, faults, soupVars, discVars, locVars, colVars, mainVars>>

\* get_args: -d is required and missing; parse_args prints the usage and
\* raises SystemExit(2), which is not an Exception.
GetArgsMissing ==
    /\ pc = "get_args"
    /\ Raise("SystemExit")
    /\ UNCHANGED <<envVars, faults, soupVars, discVars, locVars, colVars, mainVars>>

\* The positions at which the program waits: urlopen in check_robot_txt,
\* requests.get in get_total_pages, requests.get and sleep in get_soup.
Blocking == {"main", "discover", "get_soup"}

\* The user interrupts the program while it waits: KeyboardInterrupt, which
\* no `except Exception` or `except RequestException` on the way catches.
Interrupt ==
    /\ pc \in Blocking
    /\ Raise("KeyboardInterrupt")
    /\ UNCHANGED <<envVars, faults, soupVars, discVars, locVars, colVars, mainVars>>

\* target_page = binary_page_search(1, total_pages, target_dt)
MainCallLocate ==
    /\ pc = "call_locate"
    /\ CallLocate(1, total_pages)
    /\ pc' = "locate"
    /\ UNCHANGED <<envVars, faults, err, soupVars, discVars, colVars, mainVars>>

\* article_links = get_article_links(target_page, target_dt, total_pages)
MainCallCollect ==
    /\ pc = "call_collect"
    /\ CallCollect(target_page)
    /\ pc' = "collect"
    /\ UNCHANGED <<envVars, faults, err, soupVars, discVars, locVars, mainVars>>

\* The links the for loop of main has not reached yet.
Remaining == article_links \ (rows \cup skipped)

\* for link in article_links: parse_article_link(link) calls get_soup(link).
\* (A set is iterated in no particular order.)
MainNextLink ==
    /\ pc = "details"
    /\ \E link \in Remaining : CallGetSoup(ArticleUrl(link), "parse_article")
    /\ UNCHANGED <<envVars, faults, err, discVars, locVars, colVars, mainVars>>

\* get_soup returned None: soup.find_all raises AttributeError.
ParseNoSoup ==
    /\ pc = "parse_article"
    /\ soup = NoSoup
    /\ Raise("AttributeError")
    /\ UNCHANGED <<envVars, faults, soupVars, discVars, locVars, colVars, mainVars>>

\* A script block is not JSON, or the free NewsArticle block lacks a field
\* or has an unreadable datePublished: json.loads, data[...] or isoparse
\* raises.
ParseRaises ==
    /\ pc = "parse_article"
    /\ soup # NoSoup
    /\ Raise("ParseError")
    /\ UNCHANGED <<envVars, faults, soupVars, discVars, locVars, colVars, mainVars>>

\* The article has a NewsArticle block that is accessible for free: a row.
ParseFree ==
    /\ pc = "parse_article"
    /\ soup # NoSoup
    /\ rows' = rows \cup {soup.id}
    /\ pc' = "details"
    /\ UNCHANGED <<envVars, faults, err, soupVars, discVars, locVars, colVars>>
    /\ UNCHANGED <<robots, skipped, row_data, store, exit_status, dbVars, pdfVars>>

\* The article has no such block: parse_article_link returns None and main
\* skips the link.
ParsePremium ==
    /\ pc = "parse_article"
    /\ soup # NoSoup
    /\ skipped' = skipped \cup {soup.id}
    /\ pc' = "details"
    /\ UNCHANGED <<envVars, faults, err, soupVars, discVars, locVars, colVars>>
    /\ UNCHANGED <<robots, rows, row_data, store, exit_status, dbVars, pdfVars>>

MainAllPremiumSucceeds ==
    /\ pc = "details"
    /\ Remaining = {}
    /\ rows = {}
    /\ exit_status' = "0"
    /\ pc' = "exited"
    /\ UNCHANGED <<envVars, faults, err, soupVars, discVars, locVars, colVars>>
    /\ UNCHANGED <<robots, rows, skipped, row_data, store, dbVars, pdfVars>>

\* if not rows: RuntimeError('All articles published on that day were premium').
MainAllPremium ==
    /\ pc = "details"
    /\ Remaining = {}
    /\ rows = {}
    /\ Raise("AllPremium")
    /\ UNCHANGED <<envVars, faults, soupVars, discVars, locVars, colVars, mainVars>>

\* ---------------------------------------------------------------- the store
\* A row of table ARTICLES: its TITLE (NullTitle for NULL) and its CONTENT.
Row(t, c) == [title |-> t, content |-> c]
NullTitle == 0
TitlesOf(st) == {r.title : r \in st}
InsertRowReplaces(st, r) == {q \in st : q.title # r.title} \cup {r}
\* One INSERT ... ON CONFLICT(TITLE) DO NOTHING of a row with a title.
InsertRow(st, r) == IF r.title \in TitlesOf(st) THEN st ELSE st \cup {r}
\* executemany: the rows of the batch from the i-th on, in order.
RECURSIVE InsertFrom(_, _, _)
InsertFrom(st, b, i) ==
    IF i > Len(b) THEN st ELSE InsertFrom(InsertRow(st, b[i]), b, i + 1)
\* TITLE is NOT NULL: a row without title makes executemany raise.
Rejected(b) == \E i \in DOMAIN b : b[i].title = NullTitle

\* update_db(b) when every statement succeeds: the transaction commits.
UpdateDb(b) ==
    /\ ~Rejected(b)
    /\ row_data' = b
    /\ store' = InsertFrom(store, b, 1)
\* update_db(b) when connecting, ensuring the schema or a statement raises:
\* `with conn` rolls the transaction back; the error is raised again.
UpdateDbFails(b) ==
    /\ row_data' = b
    /\ store' = store

\* The row parse_article_link makes of the article behind link h.
ArticleRow(h) == Row(h, h)
\* main appends the rows in the order of the loop: the orders of a set.
SeqsOf(S) ==
    {b \in [1..Cardinality(S) -> S] : \A i, j \in DOMAIN b : b[i] = b[j] => i = j}

\* update_db(rows) succeeds; main ends and the process exits with status 0.
MainUpdateDb ==
    /\ pc = "details"
    /\ Remaining = {}
    /\ rows # {}
    /\ \E b \in SeqsOf({ArticleRow(h) : h \in rows}) : UpdateDb(b)
    /\ exit_status' = "0"
    /\ pc' = "exited"
    /\ UNCHANGED <<envVars, faults, err, soupVars, discVars, locVars, colVars>>
    /\ UNCHANGED <<robots, rows, skipped, dbVars, pdfVars>>

\* update_db(rows) raises (the database cannot be opened or written).
MainUpdateDbFails ==
    /\ pc = "details"
    /\ Remaining = {}
    /\ rows # {}
    /\ \E b \in SeqsOf({ArticleRow(h) : h \in rows}) : UpdateDbFails(b)
    /\ Raise("StoreError")
    /\ UNCHANGED <<envVars, faults, soupVars, discVars, locVars, colVars>>
    /\ UNCHANGED <<robots, rows, skipped, exit_status, dbVars, pdfVars>>

\* except KeyboardInterrupt: sys.exit(2)
MainExceptInterrupt ==
    /\ pc = "raised"
    /\ err = "KeyboardInterrupt"
    /\ exit_status' = "2"
    /\ pc' = "exited"
    /\ UNCHANGED <<envVars, faults, err, soupVars, discVars, locVars, colVars>>
    /\ UNCHANGED <<robots, rows, skipped, row_data, store, dbVars, pdfVars>>

\* SystemExit(2) matches neither except clause of main: after the finally
\* block the interpreter exits with its code.
MainSystemExit ==
    /\ pc = "raised"
    /\ err = "SystemExit"
    /\ exit_status' = "2"
    /\ pc' = "exited"
    /\ UNCHANGED <<envVars, faults, err, soupVars, discVars, locVars, colVars>>
    /\ UNCHANGED <<robots, rows, skipped, row_data, store, dbVars, pdfVars>>

\* except Exception: sys.exit(1)
MainExcept ==
    /\ pc = "raised"
    /\ err \notin {"KeyboardInterrupt", "SystemExit"}
    /\ exit_status' = "1"
    /\ pc' = "exited"
    /\ UNCHANGED <<envVars, faults, err, soupVars, discVars, locVars, colVars>>
    /\ UNCHANGED <<robots, rows, skipped, row_data, store, dbVars, pdfVars>>

\* ------------------------------------------------- fixtures (whole listings)
\* The program only compares a record's date with the target and with other
\* dates, so a listing is given by the side of the target each record is on:
\* the day before, the target day, the day after.
NearDates(t) == {t - 1, t, t + 1}
\* The site cuts a listing into pages of `size` records; record k of the
\* listing links to article k, except record `nohref`, whose link tag has no
\* href, and page `blank`, which shows no record.
PageCount(len, size) == (len + size - 1) \div size
Paginate(listing, size, nohref, blank) ==
    [p \in 1..PageCount(Len(listing), size) |->
        IF p = blank THEN <<>>
        ELSE [i \in 1..(IF p * size <= Len(listing)
                          THEN size ELSE Len(listing) - (p - 1) * size) |->
                Rec(listing[(p - 1) * size + i],
                    IF (p - 1) * size + i = nohref THEN 0
                    ELSE (p - 1) * size + i)]]

\* The spillover fixture: five pages, page 2 = [first, Jan 10, Jan 10] and
\* page 3 = [Jan 10, Jan 9], with Jan 9 = 1, Jan 10 = 2, Jan 11 = 3; the
\* pages 1, 4 and 5 are a, d and e.
SpillFixture(first, a, d, e) ==
    << a,
       <<Rec(first, 21), Rec(2, 22), Rec(2, 23)>>,
       <<Rec(2, 31), Rec(1, 32)>>,
       d, e >>
SidePages(h) == {<<>>} \cup {<<Rec(dt, h)>> : dt \in 1..3}
\* Overlapping pages: the record with link 2 closes page 1 and, the listing
\* having moved on between the two requests, opens page 2 again; page 3 is c.
OverlapFixture(c) ==
    << <<Rec(3, 1), Rec(2, 2)>>,
       <<Rec(2, 2), Rec(2, 3)>>,
       c >>

\* ------------------------------------------------- state before each call
SoupIdle ==
    /\ url = NoUrl /\ ret = "none" /\ attempt = 0 /\ retry_attempt = 0
    /\ sleeps = <<>> /\ outcomes = <<>> /\ soup = NoSoup
DiscIdle == start_page = 1 /\ all_pages = {0} /\ probed = {}
LocIdle ==
    /\ lo = 1 /\ hi = 0 /\ mid = 0 /\ result = <<>> /\ probes = <<>>
    /\ loc_start = 1 /\ loc_end = 0 /\ target_page = 0
ColIdle == pg_no = 0 /\ article_links = {} /\ found_target = FALSE /\ fetched = <<>>
EmptyData == [s_no |-> <<>>, article_title |-> <<>>, article_body |-> <<>>]
PdfIdle ==
    /\ blocks = <<>> /\ blk = 0 /\ article_data = EmptyData
    /\ accumulate = FALSE /\ article_body = <<>> /\ prev_text = 0
    /\ skip = FALSE
MainIdle ==
    /\ robots = "unchecked" /\ rows = {} /\ skipped = {}
    /\ row_data = <<>> /\ store = {}
    /\ exit_status = "none"
    /\ connection = "None" /\ conns = 0
    /\ PdfIdle

\* ----------------------------------------------- get_soup on its own
InitFetch ==
    /\ \E n \in 1..MaxPages : pages = [p \in 1..n |-> <<>>]
    /\ pagination = <<>>
    /\ target_dt = 0
    /\ faults \in 0..MaxFaults
    /\ err = "none"
    /\ \E p \in 1..(MaxPages + 1) : url = PageUrl(p)
    /\ pc = "get_soup"
    /\ ret = "returned"
    /\ attempt = 0
    /\ retry_attempt = 0
    /\ sleeps = <<>>
    /\ outcomes = <<>>
    /\ soup = NoSoup
    /\ total_pages = 0
    /\ DiscIdle /\ LocIdle /\ ColIdle /\ MainIdle

NextFetch == GetSoupStep

SpecFetch == InitFetch /\ [][NextFetch]_vars

\* ----------------------------------------------- get_total_pages on its own
InitDiscover ==
    /\ \E n \in 1..MaxPages :
         /\ pagination \in [1..n -> Controls(n)]
         /\ pages = [p \in 1..n |-> <<>>]
         /\ start_page \in 1..n
    /\ target_dt = 0
    /\ faults \in {0, MaxFaults}
    /\ pc = "discover"
    /\ err = "none"
    /\ all_pages = {0}
    /\ probed = {}
    /\ total_pages = 0
    /\ SoupIdle /\ LocIdle /\ ColIdle /\ MainIdle

NextDiscover ==
    \/ DiscoverFetchFails
    \/ DiscoverNoNumbers
    \/ DiscoverJump
    \/ DiscoverReturn("returned")

SpecDiscover == InitDiscover /\ [][NextDiscover]_vars
\* get_total_pages is one sequential loop: an iteration that can run does run.
SpecDiscoverLive == SpecDiscover /\ WF_vars(NextDiscover)

\* -------------------------------------------- binary_page_search on its own
InitLocate ==
    /\ \E n \in 1..MaxPages :
         /\ pages \in [1..n -> RangePages]
         /\ \E s \in 1..n : \E e \in s..n :
              /\ loc_start = s /\ loc_end = e
              /\ lo = s /\ hi = e
    /\ pagination = <<>>
    /\ target_dt \in Targets
    /\ faults = 0
    /\ pc = "locate"
    /\ err = "none"
    /\ mid = 0 /\ result = <<>> /\ probes = <<>> /\ target_page = 0
    /\ total_pages = Len(pages)
    /\ SoupIdle /\ DiscIdle /\ ColIdle /\ MainIdle

\* The fixture's pages are all served and no request fails.
NextLocate ==
    \/ LocateProbe
    \/ RequestOk
    \/ LocateNoDates
    \/ LocateHit
    \/ LocateOlder
    \/ LocateNewer
    \/ LocateReturn("returned")

SpecLocate == InitLocate /\ [][NextLocate]_vars

\* --------------------------------------------- get_article_links on its own
InitCollect ==
    /\ target_dt \in 2..(MaxDate - 1)
    /\ \/ \E len \in 1..MaxListing : \E size \in 1..MaxRecs :
            \E listing \in [1..len -> NearDates(target_dt)] :
              \E nohref \in 0..len : \E blank \in 0..PageCount(len, size) :
                pages = Paginate(listing, size, nohref, blank)
       \/ /\ target_dt = 2
          /\ \E first \in {1, 3} :
               \E a \in SidePages(11) : \E d \in SidePages(41) :
                 \E e \in SidePages(51) :
                   pages = SpillFixture(first, a, d, e)
       \/ /\ target_dt = 2
          /\ \E c \in SidePages(4) : pages = OverlapFixture(c)
    /\ pagination = <<>>
    /\ total_pages = Len(pages)
    /\ pg_no \in 1..(Len(pages) + 1)
    /\ article_links = {}
    /\ found_target = FALSE
    /\ fetched = <<>>
    /\ faults = 0
    /\ pc = "collect"
    /\ err = "none"
    /\ SoupIdle /\ DiscIdle /\ LocIdle /\ MainIdle

\* No request fails, except those for a page the site does not serve.
NextCollect ==
    \/ CollectStep("returned")
    \/ RequestOk
    \/ RequestException

SpecCollect == InitCollect /\ [][NextCollect]_vars
\* get_article_links is one sequential loop: a step that can be taken is taken.
SpecCollectLive == SpecCollect /\ WF_vars(NextCollect)

\* ------------------------------------------------------------ a run of main
\* The listing is cut into pages; every page's pagination control shows the
\* pages 1..N and "next", or (nonumbers) the controls show "next" only.
InitRun ==
    /\ target_dt \in 2..(MaxDate - 1)
    /\ \E len \in 1..MaxRunListing : \E size \in 1..MaxRecs :
         \E listing \in [1..len -> NearDates(target_dt)] :
           \E nohref \in 0..len : \E blank \in 0..PageCount(len, size) :
             /\ pages = Paginate(listing, size, nohref, blank)
             /\ \E nonumbers \in BOOLEAN :
                  pagination =
                    [p \in 1..PageCount(len, size) |->
                       IF nonumbers THEN {NextText}
                       ELSE Window(PageCount(len, size), TRUE)]
    /\ faults = MaxFaults
    /\ pc = "main"
    /\ err = "none"
    /\ total_pages = 0
    /\ SoupIdle /\ DiscIdle /\ LocIdle /\ ColIdle /\ MainIdle

\* A run of main never takes the else branch of get_article_links (line 365):
\* the page binary_page_search returns is either past the last page, and then
\* get_soup returns None, or a page it probed with a record not newer than the
\* target, and then the scan sets found_target or stops at an older record;
\* on every later page found_target is still set.
Next ==
    \/ RobotsAllows
    \/ RobotsUnreachable
    \/ RobotsDenies
    \/ MainGetArgs
    \/ GetArgsBadDate
    \/ GetArgsMissing
    \/ Interrupt
    \/ DiscoverFetchFails
    \/ DiscoverNoNumbers
    \/ DiscoverJump
    \/ DiscoverReturn("call_locate")
    \/ MainCallLocate
    \/ LocateStep("call_collect")
    \/ MainCallCollect
    \/ CollectFetch
    \/ CollectNoSoup
    \/ CollectNoArticles
    \/ CollectReturnAtOlder("details")
    \/ CollectRaiseAtOlder
    \/ CollectLastPage("details")
    \/ CollectAdvance
    \/ GetSoupStep
    \/ MainNextLink
    \/ ParseNoSoup
    \/ ParseRaises
    \/ ParseFree
    \/ ParsePremium
    \/ MainAllPremium
    \/ MainUpdateDb
    \/ MainUpdateDbFails
    \/ MainExceptInterrupt
    \/ MainSystemExit
    \/ MainExcept

Init == InitRun
Spec == Init /\ [][Next]_vars

\* ------------------------------------------------- update_db, run after run
\* The rows a batch may hold: any title or none, one of two contents.
Contents == {1, 2}
StoreRows == {Row(t, c) : t \in NullTitle..MaxTitle, c \in Contents}
Batches == UNION {[1..n -> StoreRows] : n \in 1..MaxBatch}

\* update_db(b) commits.
StoreInsert ==
    /\ pc = "update_db"
    /\ \E b \in Batches : UpdateDb(b)
    /\ err' = "none"
    /\ UNCHANGED <<envVars, faults, pc, soupVars, discVars, locVars, colVars>>
    /\ UNCHANGED <<robots, rows, skipped, exit_status, dbVars, pdfVars>>

\* update_db(b) raises on a row without title.
StoreReject ==
    /\ pc = "update_db"
    /\ \E b \in Batches : Rejected(b) /\ UpdateDbFails(b)
    /\ err' = "StoreError"
    /\ UNCHANGED <<envVars, faults, pc, soupVars, discVars, locVars, colVars>>
    /\ UNCHANGED <<robots, rows, skipped, exit_status, dbVars, pdfVars>>

\* The table is created empty by the first ensure_schema.
InitStore ==
    /\ pages = <<>>
    /\ pagination = <<>>
    /\ target_dt = 0
    /\ faults = 0
    /\ pc = "update_db"
    /\ err = "none"
    /\ total_pages = 0
    /\ SoupIdle /\ DiscIdle /\ LocIdle /\ ColIdle /\ MainIdle

NextStore ==
    \/ StoreInsert
    \/ StoreReject

SpecStore == InitStore /\ [][NextStore]_vars

\* ------------------------------------------- DBHelper inside update_db
\* close(): an open connection is closed and forgotten, else nothing is done.
Closed(db) ==
    IF db.connection # "None"
    THEN [connection |-> "None", conns |-> db.conns - 1]
    ELSE db
Helper == [connection |-> connection, conns |-> conns]
Close ==
    /\ connection' = Closed(Helper).connection
    /\ conns' = Closed(Helper).conns
ConnectAlwaysOpens == connection' = "open" /\ conns' = conns + 1
\* connect() when sqlite3.connect succeeds: the connection held is returned,
\* and only a helper without connection opens one.
Connect ==
    IF connection # "None"
    THEN UNCHANGED dbVars
    ELSE connection' = "open" /\ conns' = conns + 1

\* update_db(b) is called: DBHelper(DB_PATH) is built and entered.
DbEnter ==
    /\ pc = "update_db"
    /\ \E b \in Batches : row_data' = b
    /\ connection' = "None"
    /\ pc' = "ensure_schema"
    /\ err' = "none"
    /\ UNCHANGED <<envVars, faults, soupVars, discVars, locVars, colVars>>
    /\ UNCHANGED <<robots, rows, skipped, store, exit_status, conns, pdfVars>>

\* sqlite3.connect raises: connect() calls close() and raises again, and so
\* does ensure_schema; the with-block is left.
DbConnectFails ==
    /\ pc = "ensure_schema"
    /\ connection = "None"
    /\ Close
    /\ pc' = "db_exit"
    /\ err' = "ConnectError"
    /\ UNCHANGED <<envVars, faults, soupVars, discVars, locVars, colVars>>
    /\ UNCHANGED <<robots, rows, skipped, row_data, store, exit_status, pdfVars>>

\* DB.ensure_schema(TABLE_SCHEMA) succeeds.
DbEnsureSchema ==
    /\ pc = "ensure_schema"
    /\ Connect
    /\ pc' = "count_before"
    /\ UNCHANGED <<envVars, faults, err, soupVars, discVars, locVars, colVars>>
    /\ UNCHANGED <<robots, rows, skipped, row_data, store, exit_status, pdfVars>>

\* DB.ensure_schema(TABLE_SCHEMA): the statement raises after connecting.
DbEnsureSchemaFails ==
    /\ pc = "ensure_schema"
    /\ Connect
    /\ pc' = "db_exit"
    /\ err' = "SchemaError"
    /\ UNCHANGED <<envVars, faults, soupVars, discVars, locVars, colVars>>
    /\ UNCHANGED <<robots, rows, skipped, row_data, store, exit_status, pdfVars>>

\* DB.fetch(FETCH_QUERY) succeeds, before or after the insertion; after the
\* second one the with-block ends.
DbFetch ==
    /\ pc \in {"count_before", "count_after"}
    /\ Connect
    /\ pc' = IF pc = "count_before" THEN "insert" ELSE "db_exit"
    /\ UNCHANGED <<envVars, faults, err, soupVars, discVars, locVars, colVars>>
    /\ UNCHANGED <<robots, rows, skipped, row_data, store, exit_status, pdfVars>>

\* DB.fetch(FETCH_QUERY) raises.
DbFetchFails ==
    /\ pc \in {"count_before", "count_after"}
    /\ Connect
    /\ pc' = "db_exit"
    /\ err' = "FetchError"
    /\ UNCHANGED <<envVars, faults, soupVars, discVars, locVars, colVars>>
    /\ UNCHANGED <<robots, rows, skipped, row_data, store, exit_status, pdfVars>>

\* DB.execute(INSERT_QUERY, row_data) commits.
DbExecute ==
    /\ pc = "insert"
    /\ Connect
    /\ UpdateDb(row_data)
    /\ pc' = "count_after"
    /\ UNCHANGED <<envVars, faults, err, soupVars, discVars, locVars, colVars>>
    /\ UNCHANGED <<robots, rows, skipped, exit_status, pdfVars>>

\* executemany raises at row k: the rows before it were inserted in the
\* transaction still open.
Partial(st, b, k) == InsertFrom(st, SubSeq(b, 1, k - 1), 1)
\* The rows executemany can raise at: a row without title always raises, so no
\* row behind the first such row is reached; any row before may raise (the
\* database is locked or cannot be written).
FirstNull(b) ==
    IF Rejected(b)
    THEN CHOOSE i \in DOMAIN b :
            /\ b[i].title = NullTitle
            /\ \A j \in 1..(i - 1) : b[j].title # NullTitle
    ELSE Len(b)
RollbackKeepsPartial(before, partial) == partial
\* `with conn` left by an exception: the connection rolls the transaction
\* back, the table is as it was before the call.
Rollback(before, partial) == before

\* DB.execute(INSERT_QUERY, row_data) raises: the transaction is rolled back.
DbExecuteFails ==
    /\ pc = "insert"
    /\ Connect
    /\ \E k \in 1..FirstNull(row_data) :
          store' = Rollback(store, Partial(store, row_data, k))
    /\ row_data' = row_data
    /\ pc' = "db_exit"
    /\ err' = "StoreError"
    /\ UNCHANGED <<envVars, faults, soupVars, discVars, locVars, colVars>>
    /\ UNCHANGED <<robots, rows, skipped, exit_status, pdfVars>>

\* __exit__: close(); an exception under way goes on to the caller.
DbExit ==
    /\ pc = "db_exit"
    /\ Close
    /\ pc' = "update_db"
    /\ UNCHANGED <<envVars, faults, err, soupVars, discVars, locVars, colVars>>
    /\ UNCHANGED <<robots, rows, skipped, row_data, store, exit_status, pdfVars>>

NextDb ==
    \/ DbEnter
    \/ DbConnectFails
    \/ DbEnsureSchema
    \/ DbEnsureSchemaFails
    \/ DbFetch
    \/ DbFetchFails
    \/ DbExecute
    \/ DbExecuteFails
    \/ DbExit

SpecDb == InitStore /\ [][NextDb]_vars

\* ------------------------------------------------- pdf_to_csv: get_data
\* A text block is given by the branch of the loop body its text and position
\* select, and by its text: "empty" (no text), "footer" (at the footer's
\* position), "topic" (main_topic_pattern), "title" (article_pattern),
\* "shorts" (article_pattern, the title holds 'NEWS IN SHORTS'), "text" (none
\* of these). The second regex matches whatever article_pattern matches, so the
\* RuntimeError of the title branch is never raised.
Block(k, t) == [kind |-> k, text |-> t]
BlockKinds ==
    {Block(k, t) : k \in {"title", "text"}, t \in 1..MaxText}
      \cup {Block(k, 1) : k \in {"empty", "footer", "topic", "shorts"}}
\* The block the loop is at.
Cur == blocks[blk + 1]
InLoop == pc = "get_data" /\ blk < Len(blocks)
\* article_data['article_body'].append('\n'.join(article_body)) when accumulate.
Flushed ==
    IF accumulate
    THEN [article_data EXCEPT !.article_body = Append(@, article_body)]
    ELSE article_data

\* get_footer_start_pos: no page has a block.
PdfNoBlocks ==
    /\ pc = "get_data"
    /\ blocks = <<>>
    /\ Raise("ValueError")
    /\ UNCHANGED <<envVars, faults, soupVars, discVars, locVars, colVars>>
    /\ UNCHANGED <<robots, rows, skipped, row_data, store, exit_status, dbVars>>
    /\ UNCHANGED pdfVars

\* An empty block, a footer block or a main topic: continue.
PdfContinue ==
    /\ InLoop
    /\ Cur.kind \in {"empty", "footer", "topic"}
    /\ blk' = blk + 1
    /\ UNCHANGED <<envVars, faults, pc, err, soupVars, discVars, locVars, colVars>>
    /\ UNCHANGED <<robots, rows, skipped, row_data, store, exit_status, dbVars>>
    /\ UNCHANGED <<blocks, article_data, accumulate, article_body, prev_text, skip>>

\* An article title: the body accumulated is appended, the title recorded.
PdfTitle ==
    /\ InLoop
    /\ Cur.kind = "title"
    /\ article_data' =
         [Flushed EXCEPT !.s_no = Append(@, Cur.text),
                         !.article_title = Append(@, Cur.text)]
    /\ skip' = FALSE
    /\ accumulate' = FALSE
    /\ article_body' = <<>>
    /\ blk' = blk + 1
    /\ UNCHANGED <<envVars, faults, pc, err, soupVars, discVars, locVars, colVars>>
    /\ UNCHANGED <<robots, rows, skipped, row_data, store, exit_status, dbVars>>
    /\ UNCHANGED <<blocks, prev_text>>

\* A 'NEWS IN SHORTS' title: the body accumulated is appended, the title is
\* not recorded and the blocks up to the next title are skipped.
PdfShorts ==
    /\ InLoop
    /\ Cur.kind = "shorts"
    /\ article_data' = Flushed
    /\ skip' = TRUE
    /\ accumulate' = FALSE
    /\ article_body' = <<>>
    /\ blk' = blk + 1
    /\ UNCHANGED <<envVars, faults, pc, err, soupVars, discVars, locVars, colVars>>
    /\ UNCHANGED <<robots, rows, skipped, row_data, store, exit_status, dbVars>>
    /\ UNCHANGED <<blocks, prev_text>>

\* Any other block: the first one after a title (or at the start) begins the
\* accumulation unless skip is set; a later one is added unless it repeats
\* prev_text.
PdfText ==
    /\ InLoop
    /\ Cur.kind = "text"
    /\ IF ~accumulate /\ ~skip
       THEN /\ article_body' = Append(article_body, Cur.text)
            /\ accumulate' = TRUE
            /\ prev_text' = Cur.text
       ELSE IF accumulate /\ Cur.text # prev_text
       THEN /\ article_body' = Append(article_body, Cur.text)
            /\ prev_text' = Cur.text
            /\ UNCHANGED accumulate
       ELSE UNCHANGED <<article_body, accumulate, prev_text>>
    /\ blk' = blk + 1
    /\ UNCHANGED <<envVars, faults, pc, err, soupVars, discVars, locVars, colVars>>
    /\ UNCHANGED <<robots, rows, skipped, row_data, store, exit_status, dbVars>>
    /\ UNCHANGED <<blocks, article_data, skip>>

\* After the loops: the last body is appended and article_data returned.
PdfReturn ==
    /\ pc = "get_data"
    /\ blocks # <<>>
    /\ blk = Len(blocks)
    /\ article_data' =
         IF article_body # <<>> THEN Flushed ELSE article_data
    /\ pc' = "to_csv"
    /\ UNCHANGED <<envVars, faults, err, soupVars, discVars, locVars, colVars>>
    /\ UNCHANGED <<robots, rows, skipped, row_data, store, exit_status, dbVars>>
    /\ UNCHANGED <<blocks, blk, accumulate, article_body, prev_text, skip>>

\* pd.DataFrame(data) takes lists of one length only.
SameLength ==
    /\ Len(article_data.s_no) = Len(article_data.article_title)
    /\ Len(article_data.article_title) = Len(article_data.article_body)

\* to_csv writes the file.
ToCsv ==
    /\ pc = "to_csv"
    /\ SameLength
    /\ pc' = "written"
    /\ UNCHANGED <<envVars, faults, err, soupVars, discVars, locVars, colVars>>
    /\ UNCHANGED <<mainVars>>

\* pd.DataFrame(data) raises ValueError: the lists differ in length.
ToCsvFails ==
    /\ pc = "to_csv"
    /\ ~SameLength
    /\ Raise("ValueError")
    /\ UNCHANGED <<envVars, faults, soupVars, discVars, locVars, colVars>>
    /\ UNCHANGED <<mainVars>>

\* The output directory or file cannot be written.
ToCsvOSError ==
    /\ pc = "to_csv"
    /\ SameLength
    /\ Raise("OSError")
    /\ UNCHANGED <<envVars, faults, soupVars, discVars, locVars, colVars>>
    /\ UNCHANGED <<mainVars>>

InitPdf ==
    /\ pages = <<>>
    /\ pagination = <<>>
    /\ target_dt = 0
    /\ faults = 0
    /\ pc = "get_data"
    /\ err = "none"
    /\ total_pages = 0
    /\ SoupIdle /\ DiscIdle /\ LocIdle /\ ColIdle
    /\ robots = "unchecked" /\ rows = {} /\ skipped = {}
    /\ row_data = <<>> /\ store = {}
    /\ exit_status = "none"
    /\ connection = "None" /\ conns = 0
    /\ \E n \in 0..MaxBlocks : blocks \in [1..n -> BlockKinds]
    /\ blk = 0
    /\ article_data = EmptyData
    /\ accumulate = FALSE
    /\ article_body = <<>>
    /\ prev_text = 0
    /\ skip = FALSE

NextPdf ==
    \/ PdfNoBlocks
    \/ PdfContinue
    \/ PdfTitle
    \/ PdfShorts
    \/ PdfText
    \/ PdfReturn
    \/ ToCsv
    \/ ToCsvFails
    \/ ToCsvOSError

SpecPdf == InitPdf /\ [][NextPdf]_vars

\* ---------------------------------------------------- claims about get_soup
\* The call of get_soup under way or last made has ended.
GetSoupEnded == pc # "get_soup" /\ outcomes # <<>>
AllTransient(n) == \A i \in 1..n : outcomes[i] = "transient"

\* C3: a fetch that meets MAX_RETRIES consecutive transient failures makes
\* exactly MAX_RETRIES requests and then raises the request error to its
\* caller instead of returning a value.
C3_ExhaustionRaises ==
    (GetSoupEnded /\ Len(outcomes) >= MAX_RETRIES /\ AllTransient(MAX_RETRIES))
        => /\ Len(outcomes) = MAX_RETRIES
           /\ pc = "raised"
           /\ err = "RequestException"

\* C4: when k < MAX_RETRIES transient failures precede a successful response,
\* get_soup returns the content after k retries (k + 1 requests) and the
\* delays slept are exactly 2^1, 2^2, ..., 2^k.
C4_BackoffThenSuccess ==
    (GetSoupEnded /\ outcomes[Len(outcomes)] = "ok")
        => LET k == Len(outcomes) - 1 IN
           /\ k < MAX_RETRIES
           /\ AllTransient(k)
           /\ soup = url
           /\ retry_attempt = k
           /\ sleeps = [i \in 1..k |-> Pow2(i)]

\* A call that succeeded on its third request, after two retries.
C4_Witness ==
    /\ GetSoupEnded
    /\ outcomes = <<"transient", "transient", "ok">>
    /\ sleeps = <<2, 4>>

\* --------------------------------------------- claims about get_total_pages
\* C7: in a fixture whose pagination controls all report the true final page
\* N, get_total_pages(start) terminates and returns exactly N, for every
\* start in 1..N (no request failing).
C7_DiscoveryReturnsFinalPage ==
    /\ TruthfulPagination
         => [](pc = "returned" => total_pages = Len(pagination))
    /\ (TruthfulPagination /\ faults = 0) => <>(pc = "returned")

\* Discovery started below the final page, jumped to it and returned it.
C7_Witness ==
    /\ TruthfulPagination
    /\ pc = "returned"
    /\ Len(pagination) >= 2
    /\ probed = {1, Len(pagination)}
    /\ total_pages = Len(pagination)

NoNumericToken(p) == \A t \in pagination[p] : ~IsInt(t)

\* C8: once a probed page shows no numeric token, discovery has failed with
\* the no-pagination error and has returned no page count; what it has seen
\* holds numeric tokens only.
C8_NoNumericTokenFails ==
    /\ (\E p \in probed : NoNumericToken(p))
         => pc = "raised" /\ err = "NoPagination" /\ total_pages = 0
    /\ all_pages \subseteq
         {0} \cup UNION {{IntOf(t) : t \in {x \in pagination[p] : IsInt(x)}} :
                          p \in probed}

\* Discovery jumped from a page with numbers to a page showing only "next".
C8_Witness ==
    /\ err = "NoPagination"
    /\ Cardinality(probed) = 2
    /\ pagination[start_page] = {NextText}

\* ------------------------------------------ claims about binary_page_search
\* The DateRange of page p, and whether it contains the target.
RangeMin(p) == Min({pages[p][i].date : i \in 1..Len(pages[p])})
RangeMax(p) == Max({pages[p][i].date : i \in 1..Len(pages[p])})
InRange(p) == RangeMin(p) <= target_dt /\ target_dt <= RangeMax(p)
\* Every page of s..e has a DateRange, and min and max are non-increasing as
\* the page number increases.
MonotoneRanges(s, e) ==
    /\ \A p \in s..e : pages[p] # <<>>
    /\ \A p \in s..e : \A q \in s..e :
         p < q => RangeMin(p) >= RangeMin(q) /\ RangeMax(p) >= RangeMax(q)
LocateReturned == pc = "returned" /\ target_page # 0

\* C1: on a fixture with non-increasing DateRanges, binary_page_search over
\* the window returns a page whose range contains the target whenever the
\* window holds such a page.
C1_MonotoneConvergence ==
    (/\ LocateReturned
     /\ MonotoneRanges(loc_start, loc_end)
     /\ \E p \in loc_start..loc_end : InRange(p))
        => /\ target_page \in loc_start..loc_end
           /\ InRange(target_page)

\* A search of the whole three-page fixture that needed two probes to hit.
C1_Witness ==
    /\ LocateReturned
    /\ loc_start = 1 /\ loc_end = Len(pages) /\ Len(pages) >= 3
    /\ MonotoneRanges(loc_start, loc_end)
    /\ Len(probes) >= 2
    /\ result # <<>>
    /\ RangeMax(1) > target_dt
    /\ RangeMin(Len(pages)) < target_dt

\* The insertion boundary of a linear scan of s..e: the lowest page the target
\* is not strictly older than, or e + 1.
LinearBoundary(s, e) ==
    IF \E p \in s..e : ~(target_dt < RangeMin(p))
      THEN Min({p \in s..e : ~(target_dt < RangeMin(p))})
      ELSE e + 1

\* C6 as stated, for every fixture whose pages all have a DateRange: when no
\* page of the window contains the target, binary_page_search returns lo as
\* it stands at termination, and that is the linear scan's boundary.
C6_NoMatchFallbackAnyFixture ==
    (/\ LocateReturned
     /\ \A p \in loc_start..loc_end : pages[p] # <<>>
     /\ \A p \in loc_start..loc_end : ~InRange(p))
        => /\ result = <<>>
           /\ target_page = lo
           /\ target_page = LinearBoundary(loc_start, loc_end)

\* C6, amended: the same for fixtures whose DateRanges are non-increasing as
\* the page number increases.
C6_NoMatchFallback ==
    (/\ LocateReturned
     /\ MonotoneRanges(loc_start, loc_end)
     /\ \A p \in loc_start..loc_end : ~InRange(p))
        => /\ result = <<>>
           /\ target_page = lo
           /\ target_page = LinearBoundary(loc_start, loc_end)

\* The target falls in a gap between two pages inside the window.
C6_Witness ==
    /\ LocateReturned
    /\ MonotoneRanges(loc_start, loc_end)
    /\ \A p \in loc_start..loc_end : ~InRange(p)
    /\ loc_start < target_page /\ target_page <= loc_end
    /\ Len(probes) >= 2

\* ------------------------------------------- claims about get_article_links
CollectEnded == pc \in {"returned", "raised"}
\* The fixture is the spillover fixture whose page 2 lists `first` first.
IsSpill(first) ==
    /\ Len(pages) = 5
    /\ pages[2] = <<Rec(first, 21), Rec(2, 22), Rec(2, 23)>>
    /\ pages[3] = <<Rec(2, 31), Rec(1, 32)>>
    /\ target_dt = 2
    /\ total_pages = 5
    /\ fetched # <<>> /\ fetched[1] = 2

\* C2 as stated: with page 2 = [Jan 9, Jan 10, Jan 10] in listed order,
\* page 3 = [Jan 10, Jan 9], target Jan 10, total_pages 5 and start_page 2,
\* the collector returns exactly the three Jan 10 identifiers and fetches the
\* pages 2 and 3 only.
C2_SpilloverAsListed ==
    (IsSpill(1) /\ CollectEnded)
        => /\ pc = "returned"
           /\ article_links = {22, 23, 31}
           /\ fetched = <<2, 3>>

\* C2, amended: with page 2 = [Jan 11, Jan 10, Jan 10] the collector returns
\* exactly the three Jan 10 identifiers, stops before the Jan 9 record of
\* page 3 and fetches the pages 2 and 3 only; with page 2 = [Jan 9, Jan 10,
\* Jan 10] it fails at the first record with nothing collected, having
\* fetched page 2 only.
C2_Spillover ==
    /\ (IsSpill(3) /\ CollectEnded)
         => /\ pc = "returned"
            /\ article_links = {22, 23, 31}
            /\ fetched = <<2, 3>>
    /\ (IsSpill(1) /\ CollectEnded)
         => /\ pc = "raised"
            /\ err = "ParseMetadata"
            /\ article_links = {}
            /\ fetched = <<2>>
    /\ (IsSpill(1) \/ IsSpill(3)) => pg_no \in {2, 3}

\* The collector returned the three links of the newest-first fixture.
C2_Witness ==
    /\ IsSpill(3)
    /\ pc = "returned"
    /\ Cardinality(article_links) = 3
    /\ pages[4] # <<>>

HasTargetOn(p) == \E i \in 1..Len(pages[p]) : pages[p][i].date = target_dt
NoOlderOn(p) == \A i \in 1..Len(pages[p]) : pages[p][i].date >= target_dt

\* C10: when the records of a page that is not the last page have all been
\* examined, the collector advances to the next page if a target-date record
\* was found on that page, and otherwise stops without another fetch:
\* it returns the accumulated set if non-empty and fails not-found if empty.
C10_AdvanceIffFoundOnPage ==
    [][(/\ pc = "articles"
        /\ soup # NoSoup
        /\ pages[pg_no] # <<>>
        /\ NoOlderOn(pg_no)
        /\ pg_no < total_pages)
          => IF HasTargetOn(pg_no)
               THEN pc' = "collect" /\ pg_no' = pg_no + 1
               ELSE /\ pg_no' = pg_no
                    /\ fetched' = fetched
                    /\ article_links' = article_links
                    /\ IF article_links # {}
                         THEN pc' = "returned"
                         ELSE pc' = "raised" /\ err' = "NotFound"]_vars

\* C11: on meeting the first record older than the target, the collector
\* returns the accumulated set at once when it is non-empty (no further fetch),
\* and fails with the not-found condition, which is not the record-parsing
\* failure, when it is empty.
C11_OlderRecordStops ==
    [][(/\ pc = "articles"
        /\ soup # NoSoup
        /\ pages[soup.id] # <<>>
        /\ Scanned.stop \in {"return", "raise"})
          => IF Scanned.links # {}
               THEN /\ pc' = "returned"
                    /\ article_links' = Scanned.links
                    /\ fetched' = fetched
               ELSE pc' = "raised" /\ err' = "NotFound"]_vars

\* The collector ended on the last page, started within 1..total_pages and met
\* no older record on the pages it fetched.
ExhaustedAtLastPage ==
    /\ CollectEnded
    /\ soup # NoSoup
    /\ soup.id = total_pages
    /\ fetched # <<>>
    /\ fetched[1] <= total_pages
    /\ \A p \in {fetched[i] : i \in DOMAIN fetched} :
           pages[p] # <<>> /\ NoOlderOn(p)
\* The links of the target-date records on the pages fetched.
MatchedOnFetched ==
    {pages[fetched[i]][j].href :
        <<i, j>> \in {ij \in (DOMAIN fetched) \X (1..(MaxRecs + 1)) :
                        /\ ij[2] <= Len(pages[fetched[ij[1]]])
                        /\ pages[fetched[ij[1]]][ij[2]].date = target_dt}} \ {0}

\* C12: when the records run through the last page with no older record met,
\* the collector returns every matched identifier without error, having
\* fetched the pages from its start page to total_pages and none beyond; if
\* nothing was matched it fails not-found.
C12_ExhaustionAtLastPage ==
    ExhaustedAtLastPage =>
        /\ fetched = [i \in 1..(total_pages - fetched[1] + 1) |-> fetched[1] + i - 1]
        /\ IF MatchedOnFetched # {}
             THEN pc = "returned" /\ article_links = MatchedOnFetched
             ELSE pc = "raised" /\ err = "NotFound"

\* The collector returned two or more links at the end of the last page,
\* having fetched two pages or more.
C12_Witness ==
    /\ ExhaustedAtLastPage
    /\ pc = "returned"
    /\ Len(fetched) >= 2
    /\ Cardinality(article_links) >= 2

\* ------------------------------------------------------ claims about a run
\* The page numbers a sequence of fetches asked for.
Range(seq) == {seq[i] : i \in DOMAIN seq}
RunExited == pc = "exited"
RunSucceeded == RunExited /\ exit_status = "0"

\* C5: every listing page fetched after discovery, by binary_page_search or
\* by get_article_links, and the start page the locator hands to the
\* collector, has a page number in 1..total_pages.
C5_FetchesWithinRange ==
    /\ Range(probes) \subseteq 1..total_pages
    /\ Range(fetched) \subseteq 1..total_pages
    /\ pc \in {"call_collect", "collect"} => target_page \in 1..total_pages

\* The records of the pages 1..total_pages, by page and position.
Positions ==
    {pi \in (1..Len(pages)) \X (1..MaxRecs) :
        pi[1] <= total_pages /\ pi[2] <= Len(pages[pi[1]])}
RecAt(pi) == pages[pi[1]][pi[2]]
TargetRecords == {pi \in Positions : RecAt(pi).date = target_dt}
\* The records whose article gave a row.
Produced == {pi \in Positions : RecAt(pi).href \in rows}
\* The listing is in non-increasing date order within and across pages.
Before(a, b) == a[1] < b[1] \/ (a[1] = b[1] /\ a[2] < b[2])
ListingSorted ==
    \A a \in Positions : \A b \in Positions :
        Before(a, b) => RecAt(a).date >= RecAt(b).date
\* The links of the target-date records that carry one.
TargetLinks == {RecAt(pi).href : pi \in TargetRecords} \ {0}

NothingFetched ==
    /\ SoupIdle /\ DiscIdle /\ LocIdle /\ ColIdle
    /\ rows = {} /\ skipped = {} /\ row_data = <<>> /\ store = {}

\* C13: when the exclusion policy is read and denies the listing path, the
\* run aborts with the policy-violation failure, having made no pagination
\* fetch, page probe, listing fetch or detail fetch and no store write.
C13_PolicyDeniedAborts ==
    robots = "deny" =>
        /\ NothingFetched
        /\ err = "Disallowed"
        /\ pc \in {"raised", "exited"}
        /\ pc = "exited" => exit_status = "1"

\* The run ended after the policy denied the path.
C13_Witness ==
    /\ robots = "deny"
    /\ pc = "exited"
    /\ exit_status = "1"

\* C14: when reading or parsing the exclusion policy fails, check_robot_txt
\* returns allowed and the run goes on to read its arguments and, with a
\* valid date, to page-count discovery; it never ends with the
\* policy-violation failure.
C14_PolicyFailOpen ==
    /\ [](robots = "unreachable" => (pc # "main" /\ err # "Disallowed"))
    /\ [][(pc = "main" /\ robots' = "unreachable") => pc' = "get_args"]_vars
    /\ [][(pc = "get_args" /\ robots = "unreachable" /\ pc' # "raised")
            => pc' = "discover"]_vars

\* The policy could not be read and the run is in page-count discovery.
C14_Witness ==
    /\ robots = "unreachable"
    /\ pc = "discover"

\* C15: a fetch of page-count discovery becomes fatal only after MAX_RETRIES
\* failed attempts; one transient failure of a page the site serves does not
\* fail discovery.
C15_DiscoveryRetries ==
    (pc = "raised" /\ err = "DiscoveryRequestError" /\ Served(PageUrl(start_page)))
        => MaxFaults - faults >= MAX_RETRIES

\* C16: the process exits with status 0 exactly when the run completed and
\* wrote to the store, with status 2 exactly when the user interrupted it,
\* and with status 1 after every other failure.
C16_ExitStatus ==
    RunExited =>
        /\ exit_status \in {"0", "1", "2"}
        /\ exit_status = "0" <=> (err = "none" /\ row_data # <<>>)
        /\ exit_status = "2" <=> err = "KeyboardInterrupt"

\* The calendar day of a timestamp.
DayOf(ts) == ts \div SlotsPerDay
OnTargetDay(ts) == DayOf(ts) = DayOf(target_dt)

\* C17: dates are compared by calendar day.  A probed page whose records
\* all fall on the target day is taken as containing the target, and a
\* record on the target day at the head of a page is collected.
C17_DateOnlyComparison ==
    /\ [][(/\ pc = "check_date"
           /\ soup # NoSoup
           /\ DatesOn(soup.id) # {}
           /\ \A d \in DatesOn(soup.id) : OnTargetDay(d))
             => result' = <<mid>>]_vars
    /\ [][(/\ pc = "articles"
           /\ soup # NoSoup
           /\ pages[soup.id] # <<>>
           /\ OnTargetDay(pages[soup.id][1].date)
           /\ pages[soup.id][1].href # 0)
             => /\ pc' # "raised"
                /\ pages[soup.id][1].href \in article_links']_vars

\* ---------------------------------------------------- claims about the store
BatchTitles(b) == {b[i].title : i \in DOMAIN b}
\* The first row of batch b with title t.
FirstWith(b, t) ==
    b[CHOOSE i \in DOMAIN b :
        b[i].title = t /\ \A j \in 1..(i - 1) : b[j].title # t]

\* C18: the store holds at most one row per title.  A batch of rows with
\* titles raises no error; it leaves every existing row as it was, adds
\* nothing for a title that exists already, in the store or earlier in the
\* batch, and adds the first row of every new title; the same batch again
\* leaves the store as it is.
C18_InsertOrIgnore ==
    /\ [](\A r \in store : \A q \in store : r.title = q.title => r = q)
    /\ []((err = "none" /\ row_data # <<>>)
            => InsertFrom(store, row_data, 1) = store)
    /\ [][~Rejected(row_data')
            => /\ err' = "none"
               /\ store \subseteq store'
               /\ store' \ store =
                    {FirstWith(row_data', t) :
                        t \in BatchTitles(row_data') \ TitlesOf(store)}]_vars

\* A batch that repeated a title with another content was inserted into a
\* store of two rows or more.
C18_Witness ==
    /\ err = "none"
    /\ Len(row_data) = 2
    /\ row_data[1].title = row_data[2].title
    /\ row_data[1] # row_data[2]
    /\ Cardinality(store) >= 2
    /\ row_data[1] \notin store

\* ------------------------------------------- claims about unavailable records
\* Every located record was found without a freely accessible block.
AllUnavailable == article_links # {} /\ skipped = article_links

C20_EmptyProbeFails ==
    /\ [][(pc = "check_date" /\ soup # NoSoup /\ DatesOn(soup.id) = {})
            => /\ pc' = "raised"
               /\ err' = "NoDates"
               /\ UNCHANGED locVars]_vars
    /\ [](err = "NoDates"
            => /\ pc = "raised"
               /\ target_page = 0
               /\ DatesOn(probes[Len(probes)]) = {})

\* The search failed on its second probe or later.
C20_Witness ==
    /\ pc = "raised"
    /\ err = "NoDates"
    /\ Len(probes) >= 2

\* ------------------------------------------- more claims about get_soup
\* C21: a failure that is not a request error is never retried: it is the
\* last outcome of the call, get_soup raises it to the caller, and the only
\* sleeps of the call are those of the request errors before it.
C21_OtherErrorNotRetried ==
    \A i \in DOMAIN outcomes :
        outcomes[i] = "other"
            => /\ i = Len(outcomes)
               /\ pc = "raised"
               /\ err = "Exception"
               /\ AllTransient(i - 1)
               /\ Len(sleeps) = i - 1
               /\ retry_attempt = i - 1

\* A call whose second request met a failure that is not a request error.
C21_Witness ==
    /\ outcomes = <<"transient", "other">>
    /\ pc = "raised"
    /\ sleeps = <<2>>

\* C26: every backoff sleep is followed by another request, so a call that
\* ended has slept fewer times than it made requests, and a call that used
\* up its attempts has slept MAX_RETRIES - 1 times.
C26_SleepOnlyBeforeRetry ==
    GetSoupEnded
        => /\ Len(sleeps) < Len(outcomes)
           /\ (Len(outcomes) = MAX_RETRIES /\ AllTransient(MAX_RETRIES))
                 => Len(sleeps) = MAX_RETRIES - 1

\* ------------------------------------------------ claims about no match
\* C22: when no record of the pages 1..total_pages has the target date and
\* no request fails, locating and then collecting ends with the not-found
\* error: no link set is returned and no other error is raised.
C22_NoMatchIsNotFound ==
    (/\ TargetRecords = {}
     /\ \A p \in 1..Len(pages) : pages[p] # <<>>
     /\ faults = MaxFaults
     /\ target_page # 0
     /\ err # "KeyboardInterrupt")
        => /\ pc \notin {"details", "parse_article", "exited"} \/ exit_status = "1"
           /\ article_links = {}
           /\ pc = "raised" => err = "NotFound"

\* ------------------------------------- more claims about binary_page_search
\* C23: the window always satisfies lo <= hi + 1; a probed mid lies in
\* [lo, hi]; lo never decreases and hi never increases; every iteration
\* makes hi - lo smaller; no page is probed twice.
C23_WindowShrinks ==
    /\ [](lo <= hi + 1)
    /\ [](pc \in {"get_soup", "check_date"} => (lo <= mid /\ mid <= hi))
    /\ [](\A i \in DOMAIN probes : \A j \in DOMAIN probes :
             probes[i] = probes[j] => i = j)
    /\ [][lo' >= lo /\ hi' <= hi]_vars
    /\ [][(pc = "check_date" /\ pc' = "locate") => hi' - lo' < hi - lo]_vars

\* The search of a window of three pages ended with the window closed after
\* two probes.
C23_Witness ==
    /\ pc = "returned"
    /\ lo = hi + 1
    /\ loc_end - loc_start = 2
    /\ Len(probes) = 2

\* C24: on a fixture with non-increasing DateRanges, when a page of the
\* window contains the target, binary_page_search returns the lowest such
\* page; each hit records mid, which is lower than the candidate recorded
\* before, and goes on with hi = mid - 1, and the page returned is the last
\* candidate recorded.
C24_LowestContainingPage ==
    /\ []((/\ LocateReturned
           /\ MonotoneRanges(loc_start, loc_end)
           /\ \E p \in loc_start..loc_end : InRange(p))
             => /\ result # <<>>
                /\ target_page = result[1]
                /\ target_page = Min({p \in loc_start..loc_end : InRange(p)}))
    /\ [][(/\ pc = "check_date"
           /\ soup # NoSoup
           /\ pages[soup.id] # <<>>
           /\ InRange(soup.id))
             => /\ result' = <<mid>>
                /\ hi' = mid - 1
                /\ lo' = lo
                /\ result # <<>> => mid < result[1]]_vars

\* The search hit a page, then a lower one, and returned the lower one.
C24_Witness ==
    /\ LocateReturned
    /\ MonotoneRanges(loc_start, loc_end)
    /\ result # <<>>
    /\ \E i \in DOMAIN probes :
         /\ probes[i] > target_page
         /\ probes[i] \in loc_start..loc_end
         /\ InRange(probes[i])

\* -------------------------------------- more claims about get_total_pages
\* C25: every iteration of get_total_pages that does not end raises the
\* running maximum of the page numbers seen and probes that iteration's
\* maximum next; hence discovery ends on every fixture whose pages all show
\* a numeric token (no request failing).
C25_RunningMaxIncreases ==
    /\ [][(pc = "discover" /\ pc' = "discover")
            => /\ Max(all_pages') > Max(all_pages)
               /\ start_page' = Max(PagesFound(start_page))]_vars
    /\ (faults = 0 /\ \A p \in 1..Len(pagination) : PagesFound(p) # {})
          => <>(pc \in {"returned", "raised"})

\* ------------------------------------------- claims about the order of a run
\* C27: the phases of a run come in the order policy check, page-count
\* discovery, page location, collection, detail fetches, store write.  The
\* policy is checked once and before any content fetch; a phase is entered
\* only when the one before it has returned; the store is written only when
\* every collected link has been fetched.
C27_PhaseOrder ==
    /\ [](robots = "unchecked"
            => (pc \in {"main", "raised", "exited"} /\ NothingFetched))
    /\ [][robots # "unchecked" => robots' = robots]_vars
    /\ []((pc = "discover" \/ probed # {})
            => robots \in {"allow", "unreachable"})
    /\ []((pc \in {"call_locate", "locate", "check_date"} \/ probes # <<>>)
            => total_pages > 0)
    /\ [](url.kind = "page" => total_pages > 0)
    /\ []((pc \in {"call_collect", "collect", "articles"} \/ fetched # <<>>)
            => (total_pages > 0 /\ target_page # 0 /\ lo > hi))
    /\ []((pc \in {"details", "parse_article"} \/ url.kind = "article"
             \/ rows \cup skipped # {})
            => (article_links # {} /\ fetched # <<>>))
    /\ [](row_data # <<>> => (Remaining = {} /\ rows # {}))
    /\ [](store # {} => row_data # <<>>)

\* A run went through every phase and wrote two rows or more.
C27_Witness ==
    /\ RunSucceeded
    /\ robots = "allow"
    /\ Len(probes) >= 2
    /\ Len(fetched) >= 2
    /\ Len(row_data) >= 2

\* ----------------------------------- more claims about get_article_links
\* The target-date records of the pages fetched so far, by fetch and position.
TargetSeen ==
    {ij \in (DOMAIN fetched) \X (1..(MaxRecs + 1)) :
        /\ fetched[ij[1]] \in 1..Len(pages)
        /\ ij[2] <= Len(pages[fetched[ij[1]]])
        /\ pages[fetched[ij[1]]][ij[2]].date = target_dt}

\* C28: the accumulated set holds only identifiers of target-date records of
\* the pages fetched, an identifier met on two pages is held once, and a set
\* the collector returns is not empty.
C28_LinkSetInvariant ==
    /\ article_links \subseteq
         {pages[fetched[ij[1]]][ij[2]].href : ij \in TargetSeen} \ {0}
    /\ Cardinality(article_links) <= Cardinality(TargetSeen)
    /\ pc = "returned" => article_links # {}
    /\ (pc = "returned" /\ \E c \in SidePages(4) : pages = OverlapFixture(c)
          /\ fetched = <<1, 2, 3>>)
          => /\ article_links =
                  {pages[fetched[ij[1]]][ij[2]].href : ij \in TargetSeen}
             /\ Cardinality(article_links) = Cardinality(TargetSeen) - 1

\* The collector returned after meeting the record with link 2 on two pages.
C28_Witness ==
    /\ pc = "returned"
    /\ \E c \in SidePages(4) : pages = OverlapFixture(c)
    /\ fetched = <<1, 2, 3>>
    /\ Cardinality(TargetSeen) = 3
    /\ article_links = {2, 3}

\* C29: started at a page not beyond total_pages, the collector fetches the
\* consecutive pages from its start page on, each once, at most
\* total_pages - start + 1 of them, and ends by returning or failing.
C29_ConsecutiveFetches ==
    /\ []((fetched # <<>> /\ fetched[1] <= total_pages)
            => /\ fetched = [i \in 1..Len(fetched) |-> fetched[1] + i - 1]
               /\ Len(fetched) <= total_pages - fetched[1] + 1)
    /\ (pg_no <= total_pages) => <>CollectEnded

\* The collector ended after fetching every page from 1 to the third.
C29_Witness ==
    /\ CollectEnded
    /\ fetched = <<1, 2, 3>>
    /\ total_pages = 3

\* --------------------------------------------------- claims about DBHelper
\* The with-block of update_db has been left, normally or by an exception.
WithBlockLeft == pc = "update_db" /\ row_data # <<>>

\* C30: a DBHelper holds at most one open connection at any time (connect
\* hands back the connection held instead of opening another one); once the
\* with-block of update_db is left, normally or because ensure_schema, fetch
\* or execute raised, the connection is closed and self.connection is None;
\* closing twice is the same as closing once.
C30_OneConnectionClosedOnExit ==
    /\ conns <= 1
    /\ conns = IF connection = "None" THEN 0 ELSE 1
    /\ pc \in {"count_before", "insert", "count_after"} => connection = "open"
    /\ WithBlockLeft => connection = "None" /\ conns = 0
    /\ Closed(Closed(Helper)) = Closed(Helper)
    /\ Closed(Helper) = [connection |-> "None", conns |-> 0]
C30_Witness ==
    /\ WithBlockLeft
    /\ err = "StoreError"
    /\ store # {}
    /\ connection = "None" /\ conns = 0

\* The first row of the batch would be inserted and the second one raises.
SecondRowRaises ==
    /\ Len(row_data) = 2
    /\ row_data[1].title \notin TitlesOf(store) \cup {NullTitle}
    /\ row_data[2].title = NullTitle

\* C31: DBHelper.execute applies a batch atomically: when inserting a row of
\* the batch raises, the table is as it was before the call (no row of the
\* batch stays, also none inserted before the failing row) and the error
\* goes on to the caller through __exit__; when no row raises, the whole
\* batch is applied.
C31_BatchAtomic ==
    [][ /\ (pc = "insert" /\ pc' = "db_exit")
            => store' = store /\ err' = "StoreError"
        /\ (pc = "insert" /\ pc' = "count_after")
            => /\ store' = InsertFrom(store, row_data, 1)
               /\ ~Rejected(row_data)
               /\ err' = err
        /\ (pc = "db_exit" /\ pc' = "update_db")
            => store' = store /\ err' = err ]_vars
C31_Witness ==
    /\ pc = "db_exit"
    /\ err = "StoreError"
    /\ SecondRowRaises
    /\ store # {}

\* --------------------------------------------------- claims about get_data
\* get_data has returned article_data.
GetDataReturned == pc \in {"to_csv", "written"} \/ (pc = "raised" /\ blocks # <<>>)

\* C32: after get_data has processed any sequence of text blocks (titles,
\* 'NEWS IN SHORTS' titles, body text, body text before the first title,
\* titles without body text) the lists s_no, article_title and article_body
\* have one length, so every recorded title has exactly one body entry.
C32_ListsOfOneLength == GetDataReturned => SameLength

====
